---------------------------- MODULE Spec2Model ----------------------------
(***************************************************************************)
(* demo_code.py: a straight-line demonstration script.  Three scenarios    *)
(* each run a unit test against a vulnerable operation and then print a    *)
(* literal list of warnings; a summary follows.  The state is the          *)
(* interpreter position, the standard output written so far, the part of   *)
(* the filesystem the script touches (test_data.csv, models/,              *)
(* models/test_model.pkl) and the Python objects bound by the tests.       *)
(*                                                                         *)
(* Output text is kept per print call as a record: the number of leading   *)
(* newlines, the indentation, the leading icon ("[!]" for the warning      *)
(* sign, "[v]" for the check mark, "[?]" for the magnifier, "[*]" for the  *)
(* bullet), the severity tag before the colon, the first integer of the    *)
(* text (-1 when there is none) and the text itself.                       *)
(***************************************************************************)
EXTENDS Integers, Sequences, FiniteSets, TLC

VARIABLES pc, status, exc, out, fs, mem, fs0, hist, tampered

vars ==
    <<pc, status, exc, out, fs, mem, fs0, hist, tampered>>

\* Number of times the script is started in succession.
MaxRuns ==
    2

\* Number of writes another process makes to the script's files (SpecEnv).
MaxTamper ==
    1

\* Position just past the last statement of the file.
EndOfFile ==
    205

(***************************************************************************)
(* Program text                                                            *)
(***************************************************************************)

\* The statements in the order the interpreter executes them; the bodies of
\* the three test functions appear where they are called.
Order ==
    << 13, 14, 15, 16, 22, 23, 24,
       48, 49, 38, 39, 41, 42, 43, 44, 46,
       51, 52, 53, 54, 55, 56, 57,
       64, 65, 66, 84, 85, 86, 87, 88,
       99, 100, 94, 95, 96, 97,
       102, 103, 104, 105, 106, 107, 108, 109,
       112, 113,
       120, 121, 122, 156, 157, 150, 151, 152, 153, 154,
       159, 160, 161, 162, 163, 164, 165, 166,
       173, 174, 175, 177, 178, 179, 180, 182, 183, 184, 185,
       187, 188, 189, 190, 191, 193, 194, 195, 196, 197,
       199, 200, 201, 202, 203, 204, EndOfFile >>

Pos(l) ==
    CHOOSE i \in DOMAIN Order : Order[i] = l

NextPcSkipTest(l) ==
    CASE l = 48 -> 51
      [] l = 99 -> 102
      [] l = 156 -> 159
      [] OTHER -> Order[Pos(l) + 1]

NextPc(l) ==
    Order[Pos(l) + 1]

\* The statement of Order during which line l runs: line 139 is the body of
\* get_credentials, called from line 153.
StmtOf(l) ==
    IF l = 139 THEN 153 ELSE l

\* The section of the file a line belongs to: 0 for the header, 1..3 for the
\* three examples, 4 for the summary.  The sections start at the comment
\* banners of lines 18, 60, 116 and 169.
ScenarioOf(l) ==
    CASE l < 18 -> 0
      [] l >= 18 /\ l < 60 -> 1
      [] l >= 60 /\ l < 116 -> 2
      [] l >= 116 /\ l < 169 -> 3
      [] OTHER -> 4

print_lines ==
    {13, 14, 15, 16, 22, 23, 24, 44, 48, 51, 52, 53, 54, 55, 56, 57, 64, 65, 66, 84, 97, 99, 102, 103, 104, 105, 106, 107, 108, 109, 120, 121, 122, 154, 156, 159, 160, 161, 162, 163, 164, 165, 166, 173, 174, 175, 177, 178, 179, 180, 182, 183, 184, 185, 187, 188, 189, 190, 191, 193, 194, 195, 196, 197, 199, 200, 201, 202, 203, 204}

print_arg(l) ==
    CASE l = 13 -> [nl |-> 0, indent |-> 0, icon |-> "", tag |-> "", num |-> -1, text |-> "======================================================================"]
      [] l = 14 -> [nl |-> 0, indent |-> 0, icon |-> "", tag |-> "", num |-> -1, text |-> "STATIC ANALYSIS DEMONSTRATION"]
      [] l = 15 -> [nl |-> 0, indent |-> 0, icon |-> "", tag |-> "", num |-> -1, text |-> "Running code examples that pass tests but have security issues"]
      [] l = 16 -> [nl |-> 0, indent |-> 0, icon |-> "", tag |-> "", num |-> -1, text |-> "======================================================================"]
      [] l = 22 -> [nl |-> 1, indent |-> 0, icon |-> "", tag |-> "", num |-> -1, text |-> "======================================================================"]
      [] l = 23 -> [nl |-> 0, indent |-> 0, icon |-> "", tag |-> "", num |-> 1, text |-> "EXAMPLE 1: DATA LOADING FUNCTION"]
      [] l = 24 -> [nl |-> 0, indent |-> 0, icon |-> "", tag |-> "", num |-> -1, text |-> "======================================================================"]
      [] l = 44 -> [nl |-> 0, indent |-> 0, icon |-> "[v]", tag |-> "", num |-> -1, text |-> "Unit test PASSED"]
      [] l = 48 -> [nl |-> 1, indent |-> 0, icon |-> "", tag |-> "", num |-> -1, text |-> "[Running unit test...]"]
      [] l = 51 -> [nl |-> 1, indent |-> 0, icon |-> "", tag |-> "", num |-> -1, text |-> "[What Static Analysis Would Flag:]"]
      [] l = 52 -> [nl |-> 0, indent |-> 0, icon |-> "[!]", tag |-> "WARNING", num |-> -1, text |-> "No input validation on file_path parameter"]
      [] l = 53 -> [nl |-> 0, indent |-> 0, icon |-> "[!]", tag |-> "WARNING", num |-> -1, text |-> "No file size limit checking"]
      [] l = 54 -> [nl |-> 0, indent |-> 0, icon |-> "[!]", tag |-> "WARNING", num |-> -1, text |-> "No data integrity verification (checksums)"]
      [] l = 55 -> [nl |-> 0, indent |-> 0, icon |-> "[!]", tag |-> "WARNING", num |-> -1, text |-> "No anomaly detection in loaded data"]
      [] l = 56 -> [nl |-> 0, indent |-> 0, icon |-> "[!]", tag |-> "WARNING", num |-> -1, text |-> "Could load malicious/poisoned data in production"]
      [] l = 57 -> [nl |-> 1, indent |-> 0, icon |-> "[?]", tag |-> "", num |-> 5, text |-> "Static analysis caught 5 security issues that tests missed!"]
      [] l = 64 -> [nl |-> 2, indent |-> 0, icon |-> "", tag |-> "", num |-> -1, text |-> "======================================================================"]
      [] l = 65 -> [nl |-> 0, indent |-> 0, icon |-> "", tag |-> "", num |-> 2, text |-> "EXAMPLE 2: MODEL SERVING API"]
      [] l = 66 -> [nl |-> 0, indent |-> 0, icon |-> "", tag |-> "", num |-> -1, text |-> "======================================================================"]
      [] l = 84 -> [nl |-> 1, indent |-> 0, icon |-> "", tag |-> "", num |-> -1, text |-> "[Setting up test environment...]"]
      [] l = 97 -> [nl |-> 0, indent |-> 0, icon |-> "[v]", tag |-> "", num |-> -1, text |-> "Unit test PASSED"]
      [] l = 99 -> [nl |-> 1, indent |-> 0, icon |-> "", tag |-> "", num |-> -1, text |-> "[Running unit test...]"]
      [] l = 102 -> [nl |-> 1, indent |-> 0, icon |-> "", tag |-> "", num |-> -1, text |-> "[What Static Analysis Would Flag:]"]
      [] l = 103 -> [nl |-> 0, indent |-> 0, icon |-> "[!]", tag |-> "CRITICAL", num |-> -1, text |-> "Unsanitized user input in file path"]
      [] l = 104 -> [nl |-> 0, indent |-> 0, icon |-> "[!]", tag |-> "CRITICAL", num |-> -1, text |-> "Path traversal vulnerability"]
      [] l = 105 -> [nl |-> 0, indent |-> 4, icon |-> "", tag |-> "", num |-> -1, text |-> "Attack example: model_name = '../../../etc/passwd'"]
      [] l = 106 -> [nl |-> 0, indent |-> 0, icon |-> "[!]", tag |-> "CRITICAL", num |-> -1, text |-> "Unsafe pickle deserialization"]
      [] l = 107 -> [nl |-> 0, indent |-> 0, icon |-> "[!]", tag |-> "WARNING", num |-> -1, text |-> "No authentication/authorization checks"]
      [] l = 108 -> [nl |-> 0, indent |-> 0, icon |-> "[!]", tag |-> "WARNING", num |-> -1, text |-> "No rate limiting on model loading"]
      [] l = 109 -> [nl |-> 1, indent |-> 0, icon |-> "[?]", tag |-> "", num |-> 5, text |-> "Static analysis caught 5 critical issues that tests missed!"]
      [] l = 120 -> [nl |-> 2, indent |-> 0, icon |-> "", tag |-> "", num |-> -1, text |-> "======================================================================"]
      [] l = 121 -> [nl |-> 0, indent |-> 0, icon |-> "", tag |-> "", num |-> 3, text |-> "EXAMPLE 3: CONFIGURATION MANAGEMENT"]
      [] l = 122 -> [nl |-> 0, indent |-> 0, icon |-> "", tag |-> "", num |-> -1, text |-> "======================================================================"]
      [] l = 154 -> [nl |-> 0, indent |-> 0, icon |-> "[v]", tag |-> "", num |-> -1, text |-> "Unit test PASSED"]
      [] l = 156 -> [nl |-> 1, indent |-> 0, icon |-> "", tag |-> "", num |-> -1, text |-> "[Running unit test...]"]
      [] l = 159 -> [nl |-> 1, indent |-> 0, icon |-> "", tag |-> "", num |-> -1, text |-> "[What Static Analysis Would Flag:]"]
      [] l = 160 -> [nl |-> 0, indent |-> 0, icon |-> "[!]", tag |-> "CRITICAL", num |-> -1, text |-> "Hardcoded API key in source code"]
      [] l = 161 -> [nl |-> 0, indent |-> 0, icon |-> "[!]", tag |-> "CRITICAL", num |-> -1, text |-> "Hardcoded password in source code"]
      [] l = 162 -> [nl |-> 0, indent |-> 0, icon |-> "[!]", tag |-> "CRITICAL", num |-> -1, text |-> "Sensitive data logged in plaintext"]
      [] l = 163 -> [nl |-> 0, indent |-> 0, icon |-> "[!]", tag |-> "WARNING", num |-> -1, text |-> "No encryption for secrets at rest"]
      [] l = 164 -> [nl |-> 0, indent |-> 0, icon |-> "[!]", tag |-> "WARNING", num |-> -1, text |-> "Password transmitted without encryption"]
      [] l = 165 -> [nl |-> 0, indent |-> 0, icon |-> "[!]", tag |-> "WARNING", num |-> -1, text |-> "Credentials should be in environment variables"]
      [] l = 166 -> [nl |-> 1, indent |-> 0, icon |-> "[?]", tag |-> "", num |-> 6, text |-> "Static analysis caught 6 security violations that tests missed!"]
      [] l = 173 -> [nl |-> 2, indent |-> 0, icon |-> "", tag |-> "", num |-> -1, text |-> "======================================================================"]
      [] l = 174 -> [nl |-> 0, indent |-> 0, icon |-> "", tag |-> "", num |-> -1, text |-> "STATIC vs DYNAMIC ANALYSIS COMPARISON"]
      [] l = 175 -> [nl |-> 0, indent |-> 0, icon |-> "", tag |-> "", num |-> -1, text |-> "======================================================================"]
      [] l = 177 -> [nl |-> 1, indent |-> 0, icon |-> "", tag |-> "", num |-> -1, text |-> "All three code examples:"]
      [] l = 178 -> [nl |-> 0, indent |-> 2, icon |-> "[v]", tag |-> "", num |-> -1, text |-> "Passed unit tests"]
      [] l = 179 -> [nl |-> 0, indent |-> 2, icon |-> "[v]", tag |-> "", num |-> -1, text |-> "Work correctly with test data"]
      [] l = 180 -> [nl |-> 0, indent |-> 2, icon |-> "[v]", tag |-> "", num |-> -1, text |-> "Would pass code review without security expertise"]
      [] l = 182 -> [nl |-> 1, indent |-> 0, icon |-> "", tag |-> "", num |-> -1, text |-> "But static analysis found:"]
      [] l = 183 -> [nl |-> 0, indent |-> 2, icon |-> "[!]", tag |-> "", num |-> 16, text |-> "16 total security issues"]
      [] l = 184 -> [nl |-> 0, indent |-> 2, icon |-> "[!]", tag |-> "", num |-> 8, text |-> "8 critical vulnerabilities"]
      [] l = 185 -> [nl |-> 0, indent |-> 2, icon |-> "[!]", tag |-> "", num |-> 100, text |-> "100% invisible to runtime testing"]
      [] l = 187 -> [nl |-> 1, indent |-> 0, icon |-> "", tag |-> "", num |-> -1, text |-> "Why runtime testing missed these:"]
      [] l = 188 -> [nl |-> 0, indent |-> 2, icon |-> "[*]", tag |-> "", num |-> -1, text |-> "Tests use small, trusted datasets"]
      [] l = 189 -> [nl |-> 0, indent |-> 2, icon |-> "[*]", tag |-> "", num |-> -1, text |-> "Tests use valid inputs only"]
      [] l = 190 -> [nl |-> 0, indent |-> 2, icon |-> "[*]", tag |-> "", num |-> -1, text |-> "Tests use dummy credentials"]
      [] l = 191 -> [nl |-> 0, indent |-> 2, icon |-> "[*]", tag |-> "", num |-> -1, text |-> "Tests check functionality, not security"]
      [] l = 193 -> [nl |-> 1, indent |-> 0, icon |-> "", tag |-> "", num |-> -1, text |-> "Why static analysis caught them:"]
      [] l = 194 -> [nl |-> 0, indent |-> 2, icon |-> "[*]", tag |-> "", num |-> -1, text |-> "Analyzes all possible code paths"]
      [] l = 195 -> [nl |-> 0, indent |-> 2, icon |-> "[*]", tag |-> "", num |-> -1, text |-> "Checks for missing security controls"]
      [] l = 196 -> [nl |-> 0, indent |-> 2, icon |-> "[*]", tag |-> "", num |-> -1, text |-> "Identifies dangerous patterns"]
      [] l = 197 -> [nl |-> 0, indent |-> 2, icon |-> "[*]", tag |-> "", num |-> -1, text |-> "Validates secure coding standards"]
      [] l = 199 -> [nl |-> 1, indent |-> 0, icon |-> "", tag |-> "", num |-> -1, text |-> "======================================================================"]
      [] l = 200 -> [nl |-> 0, indent |-> 0, icon |-> "", tag |-> "", num |-> -1, text |-> "KEY TAKEAWAY:"]
      [] l = 201 -> [nl |-> 0, indent |-> 0, icon |-> "", tag |-> "", num |-> -1, text |-> "Static analysis finds architectural security gaps that"]
      [] l = 202 -> [nl |-> 0, indent |-> 0, icon |-> "", tag |-> "", num |-> -1, text |-> "testing can't see--missing validations, unsafe patterns,"]
      [] l = 203 -> [nl |-> 0, indent |-> 0, icon |-> "", tag |-> "", num |-> -1, text |-> "and secrets that only appear in source code."]
      [] l = 204 -> [nl |-> 0, indent |-> 0, icon |-> "", tag |-> "", num |-> -1, text |-> "======================================================================"]

(***************************************************************************)
(* Python values                                                           *)
(***************************************************************************)

\* pandas.DataFrame(dict): the dict is given column by column.
DataFrame(cols) ==
    [columns |-> [j \in DOMAIN cols |-> cols[j][1]],
     rows    |-> [i \in DOMAIN cols[1][2] |->
                     [j \in DOMAIN cols |-> cols[j][2][i]]]]

NoFrame ==
    [columns |-> <<>>, rows |-> <<>>]

Digits ==
    0 .. 9

\* A cell read back from text: the integer it spells, -1 when it spells none.
ParseCell(s) ==
    IF \E n \in Digits : ToString(n) = s
    THEN CHOOSE n \in Digits : ToString(n) = s
    ELSE -1

\* DataFrame.to_csv(path, index=False): a header line, then one line per row.
to_csv(df) ==
    <<df.columns>> \o
    [i \in DOMAIN df.rows |-> [j \in DOMAIN df.rows[i] |-> ToString(df.rows[i][j])]]

\* pandas.read_csv(path) on a non-empty file: the first line names the
\* columns, every further line is a row.
read_csv_headerless(text) ==
    [columns |-> text[1],
     rows    |-> [i \in 1 .. Len(text) - 2 |->
                     [j \in DOMAIN text[i + 2] |-> ParseCell(text[i + 2][j])]]]

read_csv(text) ==
    [columns |-> text[1],
     rows    |-> [i \in 1 .. Len(text) - 1 |->
                     [j \in DOMAIN text[i + 1] |-> ParseCell(text[i + 1][j])]]]

\* sklearn LogisticRegression: unfitted object, fit, predict.
LogisticRegression ==
    [cls |-> "LogisticRegression", fitted |-> FALSE, classes |-> {}]

fit(model, X, y) ==
    [model EXCEPT !.fitted = TRUE, !.classes = {y[i] : i \in DOMAIN y}]

\* The predictions a model can return for X: one label per row.  The test
\* point [2, 3] is the midpoint of the two training points, so either class
\* can come out.  An object of another class loaded from the file returns
\* whatever it likes; here, nothing.
predict(model, X) ==
    IF model.cls = "LogisticRegression"
    THEN [DOMAIN X -> model.classes]
    ELSE {<<>>}

\* pickle.dump / pickle.load.
PickleProtocol ==
    4

pickle_dump(obj) ==
    [proto |-> PickleProtocol, global |-> obj.cls,
     state |-> [fitted |-> obj.fitted, classes |-> obj.classes]]

pickle_load(data) ==
    [cls |-> data.global, fitted |-> data.state.fitted, classes |-> data.state.classes]

\* ModelConfig.__init__
NoneValue ==
    "<None>"

ModelConfig ==
    [api_key |-> "sk-1234567890abcdef", db_password |-> "MyP@ssw0rd123",
     log_file |-> "/var/log/model.log"]

NoConfig ==
    [api_key |-> NoneValue, db_password |-> NoneValue, log_file |-> NoneValue]

\* The line ModelConfig.get_credentials prints.
CredentialsLine(config) ==
    [nl |-> 0, indent |-> 0, icon |-> "", tag |-> "", num |-> 1234567890,
     text |-> "Using API key: " \o config.api_key]

\* The objects the tests bind, before any test has run.
InitMem ==
    [test_data |-> NoFrame, result |-> NoFrame,
     dummy_model |-> LogisticRegression, input_data |-> <<>>,
     result2 |-> <<>>, config |-> NoConfig, credentials |-> NoneValue]

(***************************************************************************)
(* Filesystem                                                              *)
(***************************************************************************)

\* Contents a file can hold before the script starts.
OldCsv ==
    << <<"id">>, <<"7">> >>

OldPkl ==
    [proto |-> PickleProtocol, global |-> "LogisticRegression",
     state |-> [fitted |-> FALSE, classes |-> {}]]

\* What an entry that does not exist holds.
NoCsv ==
    <<>>

NoPkl ==
    [proto |-> PickleProtocol, global |-> "", state |-> [fitted |-> FALSE, classes |-> {}]]

Absent(data) ==
    [kind |-> "absent", data |-> data]

\* The entries at the three paths the script names.  models.others are the
\* entries of models/ other than test_model.pkl.
InitFs ==
    { [csv |-> c, models |-> m, pkl |-> p] :
        c \in {Absent(NoCsv), [kind |-> "file", data |-> OldCsv], [kind |-> "dir", data |-> NoCsv]},
        m \in {[kind |-> "absent", others |-> {}], [kind |-> "file", others |-> {}]}
              \cup {[kind |-> "dir", others |-> o] : o \in SUBSET {"other.bin"}},
        p \in {Absent(NoPkl), [kind |-> "file", data |-> OldPkl], [kind |-> "dir", data |-> NoPkl]} }

WellFormedFs(f) ==
    f.pkl.kind # "absent" => f.models.kind = "dir"

CleanFs ==
    [csv |-> Absent(NoCsv), models |-> [kind |-> "absent", others |-> {}],
     pkl |-> Absent(NoPkl)]

\* os.remove(path): the entry after removing a regular file.
os_remove_noop(entry, nothing) ==
    entry

os_remove(entry, nothing) ==
    Absent(nothing)

\* os.rmdir('models'): the entry after removing an empty directory.
os_rmdir_noop(entry) ==
    entry

os_rmdir(entry) ==
    [kind |-> "absent", others |-> {}]

\* os.makedirs('models', exist_ok=True) when no file is in the way.
os_makedirs(entry) ==
    IF entry.kind = "absent" THEN [kind |-> "dir", others |-> {}] ELSE entry

\* open(path, 'w') + write: creates the file or truncates it.
write_file(entry, data) ==
    [kind |-> "file", data |-> data]

(***************************************************************************)
(* Initial state                                                           *)
(***************************************************************************)
Init ==
    /\ pc = Order[1]
    /\ status = "running"
    /\ exc = ""
    /\ out = <<>>
    /\ fs \in {f \in InitFs : WellFormedFs(f)}
    /\ fs0 = fs
    /\ mem = InitMem
    /\ hist = <<>>
    /\ tampered = 0

(***************************************************************************)
(* Statements                                                              *)
(***************************************************************************)
Running(l) ==
    pc = l /\ status = "running"

Advance ==
    pc' = NextPc(pc) /\ UNCHANGED <<status, exc>>

\* An exception nothing catches: the interpreter stops at the statement.
Raise(e) ==
    pc' = pc /\ status' = "crashed" /\ exc' = e

\* The exit code of the process, -1 while it runs.
ExitCode ==
    CASE status = "exited" -> 0
      [] status = "crashed" -> 1
      [] OTHER -> -1

Frame ==
    UNCHANGED <<fs0, hist, tampered>>

\* What the print call at line l appends to standard output; src records
\* the line of the call.
print_line_untagged(l) ==
    [src |-> l] @@ (IF l = 108 THEN [print_arg(l) EXCEPT !.icon = ""] ELSE print_arg(l))

print_line(l) ==
    [src |-> l] @@ print_arg(l)

\* print(<literal>) at module level and in the tests.
print_stmt ==
    /\ status = "running"
    /\ pc \in print_lines
    /\ out' = Append(out, print_line(pc))
    /\ Advance
    /\ UNCHANGED <<fs, mem>> /\ Frame

\* Lines 49, 100, 157: call of a test function.
CallTest ==
    /\ status = "running"
    /\ pc \in {49, 100, 157}
    /\ Advance
    /\ UNCHANGED <<out, fs, mem>> /\ Frame

\* Line 38.
L38_DataFrame ==
    /\ Running(38)
    /\ mem' = [mem EXCEPT !.test_data =
                  DataFrame(<< <<"feature1", <<1, 2, 3>> >>, <<"label", <<0, 1, 0>> >> >>)]
    /\ Advance
    /\ UNCHANGED <<out, fs>> /\ Frame

\* Line 39.
L39_to_csv ==
    /\ Running(39)
    /\ IF fs.csv.kind = "dir"
       THEN Raise("IsADirectoryError") /\ UNCHANGED fs
       ELSE fs' = [fs EXCEPT !.csv = write_file(@, to_csv(mem.test_data))] /\ Advance
    /\ UNCHANGED <<out, mem>> /\ Frame

\* Line 41 with the body of load_training_data (lines 32-33).
L41_load_training_data ==
    /\ Running(41)
    /\ IF fs.csv.kind = "absent" THEN Raise("FileNotFoundError") /\ UNCHANGED mem
       ELSE IF fs.csv.kind = "dir" THEN Raise("IsADirectoryError") /\ UNCHANGED mem
       ELSE IF fs.csv.data = <<>> THEN Raise("EmptyDataError") /\ UNCHANGED mem
       ELSE mem' = [mem EXCEPT !.result = read_csv(fs.csv.data)] /\ Advance
    /\ UNCHANGED <<out, fs>> /\ Frame

\* The conditions the tests assert.
assert_cond(l, m) ==
    CASE l = 42 -> Len(m.result.rows) = 3
      [] l = 43 -> \E j \in DOMAIN m.result.columns : m.result.columns[j] = "feature1"
      [] l = 96 -> Len(m.result2) = 1
      [] l = 151 -> m.config.api_key # NoneValue
      [] l = 152 -> m.config.db_password # NoneValue
      [] l = 153 -> Len(m.credentials) > 0

assert_lines ==
    {42, 43, 96, 151, 152, 153}

\* assert <condition>
assert_stmt_ignored(cond) ==
    Advance

assert_stmt(cond) ==
    IF cond THEN Advance ELSE Raise("AssertionError")

\* Lines 42, 43, 96, 151, 152.
assert_test ==
    /\ status = "running"
    /\ pc \in assert_lines \ {153}
    /\ assert_stmt(assert_cond(pc, mem))
    /\ UNCHANGED <<out, fs, mem>> /\ Frame

\* Line 46.
L46_remove ==
    /\ Running(46)
    /\ IF fs.csv.kind = "file"
       THEN fs' = [fs EXCEPT !.csv = os_remove(@, NoCsv)] /\ Advance
       ELSE Raise(IF fs.csv.kind = "absent" THEN "FileNotFoundError" ELSE "IsADirectoryError")
            /\ UNCHANGED fs
    /\ UNCHANGED <<out, mem>> /\ Frame

\* Line 85.
L85_makedirs ==
    /\ Running(85)
    /\ IF fs.models.kind = "file"
       THEN Raise("FileExistsError") /\ UNCHANGED fs
       ELSE fs' = [fs EXCEPT !.models = os_makedirs(@)] /\ Advance
    /\ UNCHANGED <<out, mem>> /\ Frame

\* Line 86.
L86_LogisticRegression ==
    /\ Running(86)
    /\ mem' = [mem EXCEPT !.dummy_model = LogisticRegression]
    /\ Advance
    /\ UNCHANGED <<out, fs>> /\ Frame

\* Line 87.
L87_fit ==
    /\ Running(87)
    /\ mem' = [mem EXCEPT !.dummy_model = fit(@, << <<1, 2>>, <<3, 4>> >>, <<0, 1>>)]
    /\ Advance
    /\ UNCHANGED <<out, fs>> /\ Frame

\* Lines 88-89.
L88_dump ==
    /\ Running(88)
    /\ IF fs.models.kind # "dir" THEN Raise("FileNotFoundError") /\ UNCHANGED fs
       ELSE IF fs.pkl.kind = "dir" THEN Raise("IsADirectoryError") /\ UNCHANGED fs
       ELSE fs' = [fs EXCEPT !.pkl = write_file(@, pickle_dump(mem.dummy_model))] /\ Advance
    /\ UNCHANGED <<out, mem>> /\ Frame

\* Line 94.
L94_input_data ==
    /\ Running(94)
    /\ mem' = [mem EXCEPT !.input_data = << <<2, 3>> >>]
    /\ Advance
    /\ UNCHANGED <<out, fs>> /\ Frame

\* Line 95 with the body of load_and_predict (lines 75-82).
L95_load_and_predict ==
    /\ Running(95)
    /\ IF fs.pkl.kind = "absent" THEN Raise("FileNotFoundError") /\ UNCHANGED mem
       ELSE IF fs.pkl.kind = "dir" THEN Raise("IsADirectoryError") /\ UNCHANGED mem
       ELSE /\ \E prediction \in predict(pickle_load(fs.pkl.data), mem.input_data) :
                  mem' = [mem EXCEPT !.result2 = prediction]
            /\ Advance
    /\ UNCHANGED <<out, fs>> /\ Frame

\* Line 112.
L112_remove ==
    /\ Running(112)
    /\ IF fs.pkl.kind = "file"
       THEN fs' = [fs EXCEPT !.pkl = os_remove(@, NoPkl)] /\ Advance
       ELSE Raise(IF fs.pkl.kind = "absent" THEN "FileNotFoundError" ELSE "IsADirectoryError")
            /\ UNCHANGED fs
    /\ UNCHANGED <<out, mem>> /\ Frame

\* Line 113.
L113_rmdir ==
    /\ Running(113)
    /\ IF fs.models.kind = "absent" THEN Raise("FileNotFoundError") /\ UNCHANGED fs
       ELSE IF fs.models.kind = "file" THEN Raise("NotADirectoryError") /\ UNCHANGED fs
       ELSE IF fs.models.others # {} \/ fs.pkl.kind # "absent"
            THEN Raise("OSError") /\ UNCHANGED fs
       ELSE fs' = [fs EXCEPT !.models = os_rmdir(@)] /\ Advance
    /\ UNCHANGED <<out, mem>> /\ Frame

\* Line 150 with ModelConfig.__init__ (lines 132-134).
L150_ModelConfig ==
    /\ Running(150)
    /\ mem' = [mem EXCEPT !.config = ModelConfig]
    /\ Advance
    /\ UNCHANGED <<out, fs>> /\ Frame

\* Line 153: get_credentials (lines 139-140) prints the key and returns
\* it; then the length of what it returned is asserted.
L153_get_credentials ==
    /\ Running(153)
    /\ out' = Append(out, [src |-> 139] @@ CredentialsLine(mem.config))
    /\ mem' = [mem EXCEPT !.credentials = mem.config.api_key]
    /\ assert_stmt(assert_cond(153, mem'))
    /\ UNCHANGED fs /\ Frame

\* End of file: the interpreter exits with code 0.
Exit ==
    /\ Running(EndOfFile)
    /\ status' = "exited"
    /\ UNCHANGED <<pc, exc, out, fs, mem>> /\ Frame

\* The script is started again on the filesystem the previous run left.
Restart ==
    /\ status \in {"exited", "crashed"}
    /\ Len(hist) < MaxRuns - 1
    /\ hist' = Append(hist, [fs0 |-> fs0, out |-> out, status |-> status, exc |-> exc])
    /\ pc' = Order[1]
    /\ status' = "running"
    /\ exc' = ""
    /\ out' = <<>>
    /\ mem' = InitMem
    /\ fs0' = fs
    /\ UNCHANGED <<fs, tampered>>

\* Contents another process can put into the script's files.
TamperCsv ==
    { << <<"feature1", "label">>, <<"1", "0">> >>,
      << <<"f", "label">>, <<"1", "0">>, <<"2", "1">>, <<"3", "0">> >> }

TamperPkl ==
    { [proto |-> PickleProtocol, global |-> "Other",
       state |-> [fitted |-> TRUE, classes |-> {0, 1}]] }

\* Another process rewrites a file of the script while the script runs.
EnvTamper ==
    /\ status = "running"
    /\ tampered < MaxTamper
    /\ tampered' = tampered + 1
    /\ \/ /\ fs.csv.kind = "file"
          /\ \E d \in TamperCsv : fs' = [fs EXCEPT !.csv.data = d]
       \/ /\ fs.pkl.kind = "file"
          /\ \E d \in TamperPkl : fs' = [fs EXCEPT !.pkl.data = d]
    /\ UNCHANGED <<pc, status, exc, out, mem, fs0, hist>>

Step ==
    \/ print_stmt
    \/ CallTest
    \/ L38_DataFrame
    \/ L39_to_csv
    \/ L41_load_training_data
    \/ assert_test
    \/ L46_remove
    \/ L85_makedirs
    \/ L86_LogisticRegression
    \/ L87_fit
    \/ L88_dump
    \/ L94_input_data
    \/ L95_load_and_predict
    \/ L112_remove
    \/ L113_rmdir
    \/ L150_ModelConfig
    \/ L153_get_credentials
    \/ Exit

Next ==
    Step \/ Restart

Spec ==
    Init /\ [][Next]_vars

\* The interpreter keeps executing statements until it exits or crashes.
FairSpec ==
    Spec /\ WF_vars(Step)

NextEnv ==
    Step \/ EnvTamper

SpecEnv ==
    Init /\ [][NextEnv]_vars

(***************************************************************************)
(* Properties                                                              *)
(***************************************************************************)

\* Standard output as text: the records without the line of the call.
Stdout(o) ==
    [i \in DOMAIN o |-> [nl |-> o[i].nl, indent |-> o[i].indent, icon |-> o[i].icon,
                         tag |-> o[i].tag, num |-> o[i].num, text |-> o[i].text]]

IsPrefix(s, t) ==
    Len(s) <= Len(t) /\ \A i \in DOMAIN s : s[i] = t[i]

\* A warning line of a scenario, the success line of a test, the closing
\* line of a scenario.
IsWarning(r) ==
    r.icon = "[!]" /\ ScenarioOf(r.src) \in 1 .. 3

IsSuccess(r) ==
    r.icon = "[v]" /\ r.text = "Unit test PASSED"

IsClosing(r) ==
    r.icon = "[?]"

WarningCount(k) ==
    Cardinality({i \in DOMAIN out : IsWarning(out[i]) /\ ScenarioOf(out[i].src) = k})

CriticalCount ==
    Cardinality({i \in DOMAIN out : IsWarning(out[i]) /\ out[i].tag = "CRITICAL"})

SuccessCount(k) ==
    Cardinality({i \in DOMAIN out : IsSuccess(out[i]) /\ ScenarioOf(out[i].src) = k})

Past(l) ==
    Pos(pc) > Pos(l)

Terminated ==
    status \in {"exited", "crashed"}

\* C1: the totals of the summary (lines 183 and 184) equal the number of
\* warning lines the three scenarios emitted (16) and the number of those
\* tagged CRITICAL (8).
C1_SummaryTotals ==
    \A i \in DOMAIN out :
        /\ out[i].src = 183 =>
              out[i].num = 16 /\ out[i].num = WarningCount(1) + WarningCount(2) + WarningCount(3)
        /\ out[i].src = 184 =>
              out[i].num = 8 /\ out[i].num = CriticalCount

\* C2: from the end of scenario 1 on, test_data.csv does not exist; from the
\* end of scenario 2 on, neither models/test_model.pkl nor models/ exists.
C2_TransientsGone ==
    /\ Past(57) => fs.csv.kind = "absent"
    /\ Past(113) => fs.pkl.kind = "absent" /\ fs.models.kind = "absent"

\* C2 witness: a run that found models/ already there has finished.
C2_Witness ==
    status = "exited" /\ fs0.models.kind = "dir" /\ fs0.csv.kind = "file"

\* C3: the count each scenario's closing line announces is the number of
\* warning lines the scenario printed: 5, 5 and 6.
C3_ClosingCounts ==
    \A i \in DOMAIN out :
        IsClosing(out[i]) =>
            /\ out[i].num = WarningCount(ScenarioOf(out[i].src))
            /\ out[i].num = <<5, 5, 6>>[ScenarioOf(out[i].src)]

\* C3 witness: all three closing lines are out.
C3_Witness ==
    Cardinality({i \in DOMAIN out : IsClosing(out[i])}) = 3

CleanRun ==
    fs0 = CleanFs

C4_Safe ==
    CleanRun =>
        /\ status # "crashed"
        /\ pc = 41 => fs.csv.kind = "file"
        /\ pc = 95 => fs.pkl.kind = "file"
        /\ \A a \in assert_lines : Past(a) => assert_cond(a, mem)
        /\ \A k \in 1 .. 3 :
              /\ SuccessCount(k) <= 1
              /\ (\E i \in DOMAIN out : IsClosing(out[i]) /\ ScenarioOf(out[i].src) = k)
                    => SuccessCount(k) = 1

\* C4: started on a filesystem without leftovers, every test runs to its end
\* with its assertions holding and prints one success line, the file each
\* vulnerable operation opens exists when it is opened, and the run ends.
C4_TestsPass ==
    /\ []C4_Safe
    /\ (CleanRun /\ status = "running") ~> (status = "exited")

\* C4 witness: a run from a clean filesystem has passed all three tests.
C4_Witness ==
    CleanRun /\ SuccessCount(1) + SuccessCount(2) + SuccessCount(3) = 3

\* C5: output is in the order header, scenario 1, 2, 3, summary; a warning
\* line comes after the success line of its scenario, and after the closing
\* line of the scenario before.
C5_Ordering ==
    /\ \A i, j \in DOMAIN out :
          i < j => ScenarioOf(out[i].src) <= ScenarioOf(out[j].src)
    /\ \A j \in DOMAIN out :
          IsWarning(out[j]) =>
              /\ \E i \in 1 .. j - 1 :
                    IsSuccess(out[i]) /\ ScenarioOf(out[i].src) = ScenarioOf(out[j].src)
              /\ ScenarioOf(out[j].src) > 1 =>
                    \E i \in 1 .. j - 1 :
                        IsClosing(out[i]) /\ ScenarioOf(out[i].src) = ScenarioOf(out[j].src) - 1

\* C5 witness: the warnings of scenario 3 and the summary are out.
C5_Witness ==
    /\ \E j \in DOMAIN out : IsWarning(out[j]) /\ ScenarioOf(out[j].src) = 3
    /\ \E j \in DOMAIN out : ScenarioOf(out[j].src) = 4

\* C6: a run started on a filesystem without leftovers exits normally, and
\* the run after it writes the same standard output and exits normally.
C6_Idempotent ==
    \A r \in DOMAIN hist :
        hist[r].fs0 = CleanFs =>
            /\ hist[r].status = "exited"
            /\ LET next == IF r = Len(hist) THEN [out |-> out, status |-> status]
                           ELSE [out |-> hist[r + 1].out, status |-> hist[r + 1].status]
               IN  /\ IsPrefix(Stdout(next.out), Stdout(hist[r].out))
                   /\ next.status # "crashed"
                   /\ next.status = "exited" => Stdout(next.out) = Stdout(hist[r].out)

\* C6 witness: the second of two runs has ended, the first started clean.
C6_Witness ==
    Len(hist) >= 1 /\ hist[1].fs0 = CleanFs /\ Terminated /\ Len(out) > 0

\* C7: whatever the filesystem held at the start, the run ends abnormally
\* only through a failed assertion.
C7_OnlyAssertionsCrash ==
    ExitCode > 0 => exc = "AssertionError"

C8_Safe ==
    /\ \A a \in assert_lines : Past(a) => assert_cond(a, mem)
    /\ (status = "crashed" /\ exc = "AssertionError") =>
          /\ pc \in assert_lines
          /\ \A i \in DOMAIN out :
                /\ Pos(StmtOf(out[i].src)) <= Pos(pc)
                /\ ~ (IsSuccess(out[i]) /\ ScenarioOf(out[i].src) = ScenarioOf(pc))
                /\ ~ (IsWarning(out[i]) /\ ScenarioOf(out[i].src) = ScenarioOf(pc))
                /\ ScenarioOf(out[i].src) <= ScenarioOf(pc)

\* C8: an assertion that fails ends the run there: no statement after it
\* runs, so neither the success line nor a warning line of its scenario nor
\* anything later is printed, and nothing runs after the failure.
C8_AssertionFatal ==
    /\ []C8_Safe
    /\ [][status = "crashed" => UNCHANGED <<pc, status, exc, out, mem, fs>>]_vars

\* C8 witness: an assertion has failed.
C8_Witness ==
    status = "crashed" /\ exc = "AssertionError"

\* C9: the script persists nothing: after a normal run, every entry that
\* existed at the three paths before the run exists unchanged.
C9_NothingPersisted ==
    status = "exited" =>
        /\ fs0.csv.kind # "absent" => fs.csv = fs0.csv
        /\ fs0.models.kind # "absent" => fs.models = fs0.models
        /\ fs0.pkl.kind # "absent" => fs.pkl = fs0.pkl

\* C10: a transient file does not exist outside the scenario that wrote it,
\* also when the run has crashed, and is gone before anything is printed
\* after its last use (line 41 for test_data.csv, line 95 for the model file).
C10_NoOutliving ==
    /\ (Past(39) /\ (ScenarioOf(pc) # 1 \/ status = "crashed")) => fs.csv.kind = "absent"
    /\ (Past(88) /\ (ScenarioOf(pc) # 2 \/ status = "crashed")) => fs.pkl.kind = "absent"
    /\ (\E i \in DOMAIN out : Pos(StmtOf(out[i].src)) > Pos(41)) => fs.csv.kind = "absent"
    /\ (\E i \in DOMAIN out : Pos(StmtOf(out[i].src)) > Pos(95)) => fs.pkl.kind = "absent"

=============================================================================
